---- MODULE Spec2Model ----
(***************************************************************************)
(* Project / bid / deliverable lifecycle of the freelance marketplace     *)
(* (crud.py and the routers).  Each HTTP request runs on its own pooled   *)
(* connection; a handler that first reads a row and later writes is split *)
(* at that point (the *_begin step performs the reads and checks, the     *)
(* *_commit step performs the SQL writes up to conn.commit()), so that    *)
(* requests interleave the way they can at the handlers' awaits.          *)
(* Handlers whose writes carry their own WHERE guards are one step.       *)
(*                                                                         *)
(* Ids are positions in the tables (serial primary keys, rows are never   *)
(* deleted).  Time is counted in days.  Bid and project ids passed by     *)
(* callers range over all possible ids; a bid id names an existing bid    *)
(* row and bids/deliverables are inserted for existing projects only      *)
(* (foreign keys).                                                         *)
(***************************************************************************)
EXTENDS Integers, Sequences, FiniteSets, Bags, TLC

VARIABLES projects, bids, deliverables, reviews, inflight, now, selected, stats

vars == <<projects, bids, deliverables, reviews, inflight, now, selected, stats>>

(* ---- bounds ---- *)
MaxProjects == 2
MaxBids == 2
MaxDeliverables == 2
MaxReviews == 2
MaxRows == 4
MaxInflight == 2
MaxNow == 2
MaxReviewRows == 3
MaxReceived == 200
MaxLimit == 2

(* ---- identity store (read-only) ---- *)
NULL == 0
Clients == {1}
Contractors == {2, 3}
Users == Clients \cup Contractors
\* the accounts of the users table: account 4 is a contractor that sends no request
Accounts == Users \cup {4}
Prices == {100, 120}
Deadlines == {1, 2}
\* the three sub-scores of a review form
ScoreTriples == {<<3, 3, 3>>, <<3, 3, 4>>, <<3, 4, 4>>}

user_type(u) == IF u \in Clients THEN "client" ELSE "contractor"

ProjectIds == 1..MaxProjects
BidIds == 1..MaxBids
DeliverableIds == 1..MaxDeliverables

ReviewWindow == 7
ActivityWindow == 30

ProjectExists(p) == p \in 1..Len(projects)
BidExists(b) == b \in 1..Len(bids)

\* b.contractor_id of the LEFT JOIN bids b ON p.accepted_bid_id = b.id
accepted_contractor_id(p) ==
    IF ProjectExists(p) /\ projects[p].accepted_bid_id # NULL /\ BidExists(projects[p].accepted_bid_id)
    THEN bids[projects[p].accepted_bid_id].contractor_id
    ELSE NULL

\* a request that has passed its checks and has its writes still to do; the
\* parameters it has not read yet (bid id, price, uploader) are drawn when
\* the write uses them
Req(op, u, p) == [op |-> op, uid |-> u, pid |-> p]
InflightCount(op) ==
    LET S == {r \in BagToSet(inflight) : r.op = op}
        RECURSIVE Sum(_)
        Sum(T) == IF T = {} THEN 0
                  ELSE LET r == CHOOSE x \in T : TRUE
                       IN CopiesIn(r, inflight) + Sum(T \ {r})
    IN Sum(S)

\* project, bid and deliverable rows in the database, counting the row of
\* every request that is about to insert one
RowCount ==
    Len(projects) + Len(bids) + Len(deliverables)
        + InflightCount("bid") + InflightCount("deliver")

ReviewCount == Len(reviews) + InflightCount("review") + InflightCount("client_review")

\* the database holds MaxRows project, bid and deliverable rows, and two
\* reviews in the place of each such row it does not hold
Room(rows, revs) == 2 * (RowCount + rows) + ReviewCount + revs <= 2 * MaxRows

\* no aggregate query is being answered
NoStats == [fn |-> "none", done |-> TRUE]

Init ==
    /\ projects = << >>
    /\ bids = << >>
    /\ deliverables = << >>
    /\ reviews = << >>
    /\ inflight = EmptyBag
    /\ now = 1
    /\ selected = [p \in ProjectIds |-> 0]
    /\ stats = NoStats

(* HTTP status of a handler's answer: 302/303 redirect after the work was  *)
(* done, 400/403/404 error pages.  The *_response operators compute the   *)
(* answer the handler gives from the rows it reads.                        *)

(* ======================= Project Lifecycle ============================ *)

create_project(client_id, deadline) ==
    [client_id |-> client_id, status |-> "open", accepted_bid_id |-> NULL,
     completed_at |-> NULL, deadline |-> deadline]

\* mutation: the deadline is not compared with today
create_new_project_response_no_deadline_check(u, deadline) ==
    IF user_type(u) # "client" THEN 403 ELSE 302

create_new_project_response(u, deadline) ==
    IF user_type(u) # "client" THEN 403
    ELSE IF deadline < now THEN 400
    ELSE 302

create_new_project(u, deadline) ==
    /\ Len(projects) < MaxProjects
    /\ Room(1, 0)
    /\ create_new_project_response(u, deadline) = 302
    /\ projects' = Append(projects, create_project(u, deadline))
    /\ UNCHANGED <<bids, deliverables, inflight, now, selected, reviews, stats>>

\* mutation: the UPDATE does not require status = 'open'
update_project_rows_any_status(P, project_id, client_id) ==
    {p \in 1..Len(P) : /\ p = project_id
                       /\ P[p].client_id = client_id}

\* the rows of UPDATE projects ... WHERE id = project AND client_id = client AND status = 'open'
update_project_rows(P, project_id, client_id) ==
    {p \in 1..Len(P) : /\ p = project_id
                       /\ P[p].client_id = client_id
                       /\ P[p].status = "open"}

update_project(P, project_id, client_id, deadline) ==
    [p \in 1..Len(P) |->
        IF p \in update_project_rows(P, project_id, client_id)
        THEN [P[p] EXCEPT !.deadline = deadline]
        ELSE P[p]]

process_edit_project_response(u, p, deadline) ==
    IF deadline < now THEN 400
    ELSE IF update_project_rows(projects, p, u) = {} THEN 403
    ELSE 302

process_edit_project(u, p, deadline) ==
    /\ process_edit_project_response(u, p, deadline) = 302
    /\ projects' = update_project(projects, p, u, deadline)
    /\ UNCHANGED <<bids, deliverables, inflight, now, selected, reviews, stats>>

(* ============================ Bid Ledger ============================== *)

bid_count(B, project_id, contractor_id) ==
    Cardinality({b \in 1..Len(B) : /\ B[b].project_id = project_id
                                   /\ B[b].contractor_id = contractor_id})

create_bid_insert(B, project_id, contractor_id, price) ==
    Append(B, [project_id |-> project_id, contractor_id |-> contractor_id,
               price |-> price, status |-> "pending"])

\* mutation: create_bid does not look for an earlier bid of the contractor
submit_bid_response_no_duplicate_check(u, p) ==
    IF user_type(u) # "contractor" THEN 403
    ELSE IF ProjectExists(p) /\ projects[p].deadline < now THEN 400
    ELSE 302

\* mutation: submit_bid does not compare the deadline with today
submit_bid_response_no_deadline_check(u, p) ==
    IF user_type(u) # "contractor" THEN 403
    ELSE IF bid_count(bids, p, u) > 0 THEN 400
    ELSE 302

\* the answer of submit_bid as far as its reads decide it (302: the INSERT follows)
submit_bid_response(u, p) ==
    IF user_type(u) # "contractor" THEN 403
    ELSE IF ProjectExists(p) /\ projects[p].deadline < now THEN 400
    ELSE IF bid_count(bids, p, u) > 0 THEN 400
    ELSE 302

\* submit_bid up to the duplicate check of create_bid
submit_bid_begin(u, p) ==
    /\ ProjectExists(p)
    /\ Len(bids) + InflightCount("bid") < MaxBids
    /\ Room(1, 0)
    /\ BagCardinality(inflight) < MaxInflight
    /\ submit_bid_response(u, p) = 302
    /\ inflight' = inflight (+) SetToBag({Req("bid", u, p)})
    /\ UNCHANGED <<projects, bids, deliverables, now, selected, reviews, stats>>

\* the INSERT of create_bid and the redirect
submit_bid_commit(r, price) ==
    /\ r.op = "bid"
    /\ BagIn(r, inflight)
    /\ inflight' = inflight (-) SetToBag({r})
    /\ bids' = create_bid_insert(bids, r.pid, r.uid, price)
    /\ UNCHANGED <<projects, deliverables, now, selected, reviews, stats>>

\* mutation: the UPDATE does not require status = 'pending'
update_bid_price_rows_any_status(B, bid_id, contractor_id) ==
    {b \in 1..Len(B) : /\ b = bid_id
                       /\ B[b].contractor_id = contractor_id}

update_bid_price_rows(B, bid_id, contractor_id) ==
    {b \in 1..Len(B) : /\ b = bid_id
                       /\ B[b].contractor_id = contractor_id
                       /\ B[b].status = "pending"}

update_bid_price(B, bid_id, contractor_id, new_price) ==
    [b \in 1..Len(B) |->
        IF b \in update_bid_price_rows(B, bid_id, contractor_id)
        THEN [B[b] EXCEPT !.price = new_price]
        ELSE B[b]]

update_bid_response(u, b) ==
    IF update_bid_price_rows(bids, b, u) = {} THEN 403 ELSE 302

update_bid(u, b, new_price) ==
    /\ update_bid_response(u, b) = 302
    /\ bids' = update_bid_price(bids, b, u, new_price)
    /\ UNCHANGED <<projects, deliverables, inflight, now, selected, reviews, stats>>

\* mutation: the project row gets the new status but not the accepted bid
select_bid_for_project_projects_no_bid(P, project_id, bid_id) ==
    [p \in 1..Len(P) |->
        IF p = project_id THEN [P[p] EXCEPT !.status = "in_progress"] ELSE P[p]]

\* UPDATE projects SET status = 'in_progress', accepted_bid_id = bid WHERE id = project
select_bid_for_project_projects(P, project_id, bid_id) ==
    [p \in 1..Len(P) |->
        IF p = project_id
        THEN [P[p] EXCEPT !.status = "in_progress", !.accepted_bid_id = bid_id]
        ELSE P[p]]

\* mutation: the third UPDATE (rejecting the other bids) is missing
select_bid_for_project_bids_no_reject(B, project_id, bid_id) ==
    [b \in 1..Len(B) |->
        IF b = bid_id THEN [B[b] EXCEPT !.status = "accepted"] ELSE B[b]]

\* UPDATE bids SET status = 'accepted' WHERE id = bid;
\* UPDATE bids SET status = 'rejected' WHERE project_id = project AND id != bid
select_bid_for_project_bids(B, project_id, bid_id) ==
    [b \in 1..Len(B) |->
        IF b = bid_id
        THEN [B[b] EXCEPT !.status = "accepted"]
        ELSE IF B[b].project_id = project_id
        THEN [B[b] EXCEPT !.status = "rejected"]
        ELSE B[b]]

\* mutation: select_bid refuses a project whose deadline has passed
select_bid_response_deadline_check(u, p) ==
    IF ~ProjectExists(p) \/ projects[p].client_id # u THEN 403
    ELSE IF projects[p].status # "open" THEN 400
    ELSE IF projects[p].deadline < now THEN 400
    ELSE 302

\* mutation: the status check of select_bid is missing
select_bid_response_no_status_check(u, p) ==
    IF ~ProjectExists(p) \/ projects[p].client_id # u THEN 403 ELSE 302

\* the answer of select_bid as far as its reads decide it (302: the writes follow)
select_bid_response(u, p) ==
    IF ~ProjectExists(p) \/ projects[p].client_id # u THEN 403
    ELSE IF projects[p].status # "open" THEN 400
    ELSE 302

\* select_bid up to the status check
select_bid_begin(u, p) ==
    /\ BagCardinality(inflight) < MaxInflight
    /\ select_bid_response(u, p) = 302
    /\ inflight' = inflight (+) SetToBag({Req("select", NULL, p)})
    /\ UNCHANGED <<projects, bids, deliverables, now, selected, reviews, stats>>

\* crud.select_bid_for_project and the redirect
select_bid_commit(r, b) ==
    /\ r.op = "select"
    /\ BidExists(b)
    /\ BagIn(r, inflight)
    /\ inflight' = inflight (-) SetToBag({r})
    /\ projects' = select_bid_for_project_projects(projects, r.pid, b)
    /\ bids' = select_bid_for_project_bids(bids, r.pid, b)
    /\ selected' = [selected EXCEPT ![r.pid] = @ + 1]
    /\ UNCHANGED <<deliverables, now, reviews, stats>>

(* ======================== Deliverable Workflow ======================== *)

create_deliverable_insert(D, project_id, contractor_id) ==
    Append(D, [project_id |-> project_id, contractor_id |-> contractor_id,
               status |-> "submitted", reviewed_by |-> NULL, reviewed_at |-> NULL])

\* UPDATE projects SET status = 'submitted' WHERE id = project AND status = 'in_progress'
create_deliverable_projects(P, project_id) ==
    [p \in 1..Len(P) |->
        IF p = project_id /\ P[p].status = "in_progress"
        THEN [P[p] EXCEPT !.status = "submitted"]
        ELSE P[p]]

\* the answer of process_deliverable as far as its reads decide it
process_deliverable_response(p) ==
    IF ~ProjectExists(p) THEN 404
    ELSE IF projects[p].status \notin {"in_progress", "review"} THEN 400
    ELSE 302

\* process_deliverable up to the status check
process_deliverable_begin(p) ==
    /\ Len(deliverables) + InflightCount("deliver") < MaxDeliverables
    /\ Room(1, 0)
    /\ BagCardinality(inflight) < MaxInflight
    /\ process_deliverable_response(p) = 302
    /\ inflight' = inflight (+) SetToBag({Req("deliver", NULL, p)})
    /\ UNCHANGED <<projects, bids, deliverables, now, selected, reviews, stats>>

\* crud.create_deliverable and the redirect
process_deliverable_commit(r, u) ==
    /\ r.op = "deliver"
    /\ BagIn(r, inflight)
    /\ inflight' = inflight (-) SetToBag({r})
    /\ deliverables' = create_deliverable_insert(deliverables, r.pid, u)
    /\ projects' = create_deliverable_projects(projects, r.pid)
    /\ UNCHANGED <<bids, now, selected, reviews, stats>>

\* UPDATE deliverables SET status = s, reviewed_by = client, reviewed_at = now() WHERE id = d
review_deliverable_row(D, deliverable_id, client_uid, s, t) ==
    [d \in 1..Len(D) |->
        IF d = deliverable_id
        THEN [D[d] EXCEPT !.status = s, !.reviewed_by = client_uid, !.reviewed_at = t]
        ELSE D[d]]

\* UPDATE projects SET status = 'completed', completed_at = CURRENT_TIMESTAMP
\*  WHERE id = project AND status = 'submitted'
approve_deliverable_and_complete_project_projects(P, project_id, t) ==
    [p \in 1..Len(P) |->
        IF p = project_id /\ P[p].status = "submitted"
        THEN [P[p] EXCEPT !.status = "completed", !.completed_at = t]
        ELSE P[p]]

\* mutation: a rejection parks the project in status review
reject_deliverable_projects_to_review(P, project_id) ==
    [p \in 1..Len(P) |->
        IF p = project_id /\ P[p].status = "submitted"
        THEN [P[p] EXCEPT !.status = "review"]
        ELSE P[p]]

\* UPDATE projects SET status = 'in_progress' WHERE id = project AND status = 'submitted'
reject_deliverable_projects(P, project_id) ==
    [p \in 1..Len(P) |->
        IF p = project_id /\ P[p].status = "submitted"
        THEN [P[p] EXCEPT !.status = "in_progress"]
        ELSE P[p]]

\* threads are not part of the state: resolving them leaves the rows unchanged
resolve_all_issues_by_project(P, project_id) == P

approve_deliverable_response(u, p) ==
    IF ~ProjectExists(p) \/ projects[p].client_id # u THEN 403 ELSE 302

approve_deliverable(u, p, d) ==
    /\ approve_deliverable_response(u, p) = 302
    /\ deliverables' = review_deliverable_row(deliverables, d, u, "accepted", now)
    /\ projects' = resolve_all_issues_by_project(
           approve_deliverable_and_complete_project_projects(projects, p, now), p)
    /\ UNCHANGED <<bids, inflight, now, selected, reviews, stats>>

reject_deliverable_route_response(u, p) ==
    IF ~ProjectExists(p) \/ projects[p].client_id # u THEN 403 ELSE 302

reject_deliverable_route(u, p, d) ==
    /\ reject_deliverable_route_response(u, p) = 302
    /\ deliverables' = review_deliverable_row(deliverables, d, u, "rejected", now)
    /\ projects' = reject_deliverable_projects(projects, p)
    /\ UNCHANGED <<bids, inflight, now, selected, reviews, stats>>

(* ============================= Reviews ================================ *)

check_if_reviewed(R, project_id, reviewer_id) ==
    \E i \in 1..Len(R) : R[i].project_id = project_id /\ R[i].reviewer_id = reviewer_id

\* INSERT INTO reviews (..., score_1, score_2, score_3, comment, created_at) VALUES (..., NOW())
create_review(R, project_id, reviewer_id, reviewee_id, role_type, s, t) ==
    Append(R, [project_id |-> project_id, reviewer_id |-> reviewer_id,
               reviewee_id |-> reviewee_id, role_type |-> role_type,
               score_1 |-> s[1], score_2 |-> s[2], score_3 |-> s[3],
               created_at |-> t])

\* mutation: a review request answered without the window check
submit_review_response_no_window_check(u, p) ==
    IF ~ProjectExists(p) THEN 404
    ELSE IF projects[p].status # "completed" THEN 400
    ELSE IF projects[p].completed_at = NULL THEN 400
    ELSE 303

\* the answer of the contractor-side review handler; 303 is the redirect,
\* given both after an insert and when the reviewer has reviewed already
submit_review_response(u, p) ==
    IF ~ProjectExists(p) THEN 404
    ELSE IF projects[p].status # "completed" THEN 400
    ELSE IF projects[p].completed_at = NULL THEN 400
    ELSE IF now > projects[p].completed_at + ReviewWindow THEN 400
    ELSE 303

\* submit_review up to check_if_reviewed
submit_review_begin(u, p) ==
    /\ ReviewCount < MaxReviews
    /\ Room(0, 1)
    /\ BagCardinality(inflight) < MaxInflight
    /\ submit_review_response(u, p) = 303
    /\ ~check_if_reviewed(reviews, p, u)
    /\ inflight' = inflight (+) SetToBag({Req("review", u, p)})
    /\ UNCHANGED <<projects, bids, deliverables, reviews, now, selected, stats>>

\* crud.create_review of submit_review: reviewer is the caller, reviewee the client
submit_review_commit(r, s) ==
    /\ r.op = "review"
    /\ BagIn(r, inflight)
    /\ inflight' = inflight (-) SetToBag({r})
    /\ reviews' = create_review(reviews, r.pid, r.uid, projects[r.pid].client_id,
                                "contractor_to_client", s, now)
    /\ UNCHANGED <<projects, bids, deliverables, now, selected, stats>>

submit_client_review_response(u, p) ==
    IF ~ProjectExists(p) THEN 404
    ELSE IF projects[p].client_id # u THEN 403
    ELSE IF projects[p].status # "completed" THEN 400
    ELSE IF accepted_contractor_id(p) = NULL THEN 400
    ELSE IF projects[p].completed_at = NULL THEN 400
    ELSE IF now > projects[p].completed_at + ReviewWindow THEN 400
    ELSE 303

\* submit_client_review up to check_if_reviewed; the request carries the
\* contractor it has read from the project row
submit_client_review_begin(u, p) ==
    /\ ReviewCount < MaxReviews
    /\ Room(0, 1)
    /\ BagCardinality(inflight) < MaxInflight
    /\ submit_client_review_response(u, p) = 303
    /\ ~check_if_reviewed(reviews, p, u)
    /\ inflight' = inflight (+) SetToBag({Req("client_review", accepted_contractor_id(p), p)})
    /\ UNCHANGED <<projects, bids, deliverables, reviews, now, selected, stats>>

\* crud.create_review of submit_client_review: reviewer is the client
submit_client_review_commit(r, s) ==
    /\ r.op = "client_review"
    /\ BagIn(r, inflight)
    /\ inflight' = inflight (-) SetToBag({r})
    /\ reviews' = create_review(reviews, r.pid, projects[r.pid].client_id, r.uid,
                                "client_to_contractor", s, now)
    /\ UNCHANGED <<projects, bids, deliverables, now, selected, stats>>

(* ========================= Reputation Engine ========================== *)

(* A numeric with 16 fractional digits, the scale PostgreSQL gives to the   *)
(* quotients below (sub-scores of 2 and more, fewer than 2000 rows), is     *)
(* held as <<hi, lo>> = (hi * 10^8 + lo) / 10^16.                           *)
NumericGroup == 100000000

int_numeric(n) == <<n * NumericGroup, 0>>

numeric_add(x, y) ==
    LET lo == x[2] + y[2]
    IN  <<x[1] + y[1] + lo \div NumericGroup, lo % NumericGroup>>

\* x / n, rounded half away from zero at the 16th fractional digit
numeric_div(x, n) ==
    LET t == (x[1] % n) * NumericGroup + x[2]
        q == t \div n + (IF 2 * (t % n) >= n THEN 1 ELSE 0)
    IN  <<x[1] \div n + q \div NumericGroup, q % NumericGroup>>

numeric_gt(x, y) == x[1] > y[1] \/ (x[1] = y[1] /\ x[2] > y[2])

\* the rows WHERE reviewee_id = user
received(R, user_id) == {i \in 1..Len(R) : R[i].reviewee_id = user_id}

\* (score_1 + score_2 + score_3) / 3.0
review_score(r) == numeric_div(int_numeric(r.score_1 + r.score_2 + r.score_3), 3)

RECURSIVE numeric_sum(_, _)
numeric_sum(R, I) ==
    IF I = {} THEN int_numeric(0)
    ELSE LET i == CHOOSE x \in I : TRUE
         IN  numeric_add(review_score(R[i]), numeric_sum(R, I \ {i}))

\* AVG((score_1 + score_2 + score_3) / 3.0) over the reviews a user received
avg_score(R, user_id) ==
    numeric_div(numeric_sum(R, received(R, user_id)), Cardinality(received(R, user_id)))

\* COUNT(*) of get_user_reputation_stats (the averages are display values)
get_user_reputation_stats(R, user_id) ==
    [total_count |-> Cardinality(received(R, user_id))]

\* reviews r JOIN users u ON r.reviewee_id = u.uid WHERE u.user_type = role
ranked_reviewees(R, role) ==
    {u \in Accounts : user_type(u) = role /\ received(R, u) # {}}

\* ORDER BY AVG(...) DESC: the groups in the order of the window
RECURSIVE window_order(_, _)
window_order(R, S) ==
    IF S = {} THEN << >>
    ELSE LET u == CHOOSE x \in S :
                    \A v \in S : ~numeric_gt(avg_score(R, v), avg_score(R, x))
         IN  <<u>> \o window_order(R, S \ {u})

\* RANK(): a row has the rank of the peer before it, else its position
RECURSIVE rank_over(_, _, _)
rank_over(R, W, i) ==
    IF i > 1 /\ avg_score(R, W[i]) = avg_score(R, W[i - 1])
    THEN rank_over(R, W, i - 1)
    ELSE i

\* the common table expression ranked_users
ranked_users(R, role) ==
    LET W == window_order(R, ranked_reviewees(R, role))
    IN  [i \in 1..Len(W) |->
            [reviewee_id |-> W[i], avg_score |-> avg_score(R, W[i]),
             review_count |-> Cardinality(received(R, W[i])),
             rank |-> rank_over(R, W, i)]]

\* round(100.0 - (rank / total_users * 100), 1) in tenths; where the exact
\* value lies halfway between two tenths the double arithmetic decides, and
\* both neighbours are outcomes
percentile_outcomes(rank, total_users) ==
    LET num == 1000 * (total_users - rank)
        q == num \div total_users
    IN  {x \in {q, q + 1} :
            2 * (IF x * total_users >= num THEN x * total_users - num
                                          ELSE num - x * total_users) <= total_users}

\* what get_user_ranking returns for the total and the ranked row it has read
\* (rank = NULL: no row)
get_user_ranking_results(total_users, rank, review_count) ==
    IF total_users = 0
    THEN {[rank |-> NULL, total_users |-> 0, percentile |-> 0, review_count |-> 0]}
    ELSE IF rank = NULL
    THEN {[rank |-> NULL, total_users |-> total_users, percentile |-> 0,
           review_count |-> 0]}
    ELSE {[rank |-> rank, total_users |-> total_users, percentile |-> pc,
           review_count |-> review_count] :
                pc \in percentile_outcomes(rank, total_users)}

get_user_ranking(R, user_id, role) ==
    LET total_users == Cardinality(ranked_reviewees(R, role))
        T == ranked_users(R, role)
        row == {i \in 1..Len(T) : T[i].reviewee_id = user_id}
    IN  IF row = {}
        THEN get_user_ranking_results(total_users, NULL, 0)
        ELSE LET i == CHOOSE x \in row : TRUE
             IN  get_user_ranking_results(total_users, T[i].rank, T[i].review_count)

\* mutation: the ratio is cut, not rounded
activity_score_truncated(recent_reviews, total) ==
    IF total > 0 THEN (100 * recent_reviews) \div total ELSE 0

\* CASE WHEN total > 0 THEN ROUND(recent / total * 100, 0) ELSE 0 END
activity_score(recent_reviews, total) ==
    IF total > 0 THEN (200 * recent_reviews + total) \div (2 * total) ELSE 0

get_user_activity_score(R, user_id, t) ==
    LET recent == Cardinality({i \in received(R, user_id) :
                                    R[i].created_at >= t - ActivityWindow})
    IN  [activity_score |-> activity_score(recent, Cardinality(received(R, user_id))),
         recent_reviews |-> recent]

\* the users of a role with a review, best exact average first, each with
\* its rank by standard ranking (ties share the rank), cut at limit
RECURSIVE score_sum(_, _)
score_sum(R, I) ==
    IF I = {} THEN 0
    ELSE LET i == CHOOSE x \in I : TRUE
         IN  R[i].score_1 + R[i].score_2 + R[i].score_3 + score_sum(R, I \ {i})

\* the average of u is strictly greater than the average of v
mean_gt(R, u, v) ==
    score_sum(R, received(R, u)) * Cardinality(received(R, v))
        > score_sum(R, received(R, v)) * Cardinality(received(R, u))

RECURSIVE leaderboard_order(_, _)
leaderboard_order(R, S) ==
    IF S = {} THEN << >>
    ELSE LET u == CHOOSE x \in S : \A v \in S : ~mean_gt(R, v, x)
         IN  <<u>> \o leaderboard_order(R, S \ {u})

get_leaderboard(R, role, limit) ==
    LET S == ranked_reviewees(R, role)
        W == leaderboard_order(R, S)
    IN  [i \in 1..(IF Len(W) < limit THEN Len(W) ELSE limit) |->
            [uid |-> W[i],
             review_count |-> Cardinality(received(R, W[i])),
             rank |-> 1 + Cardinality({v \in S : mean_gt(R, v, W[i])})]]

\* crud.create_review for a review of reviewee_id: a contractor is reviewed
\* by the client, the client by a contractor
record_review(reviewee_id, s) ==
    /\ Len(reviews) < MaxReviewRows
    /\ reviews' = IF user_type(reviewee_id) = "client"
                  THEN create_review(reviews, 1, 2, reviewee_id, "contractor_to_client", s, now)
                  ELSE create_review(reviews, 1, 1, reviewee_id, "client_to_contractor", s, now)
    /\ UNCHANGED <<projects, bids, deliverables, inflight, now, selected, stats>>

\* get_user_ranking, first query: the number of ranked users of the role,
\* and the return at once when there is none
get_user_ranking_count(user_id) ==
    /\ stats.done
    /\ LET total_users == Cardinality(ranked_reviewees(reviews, user_type(user_id)))
       IN  stats' = [fn |-> "ranking", user |-> user_id, total |-> total_users,
                     done |-> total_users = 0,
                     out |-> IF total_users = 0
                             THEN CHOOSE x \in get_user_ranking_results(0, NULL, 0) : TRUE
                             ELSE NULL]
    /\ UNCHANGED <<projects, bids, deliverables, reviews, inflight, now, selected>>

\* get_user_ranking, second query and the percentile: the ranked row is read
\* from the table as it is now
get_user_ranking_answer ==
    /\ stats.fn = "ranking"
    /\ ~stats.done
    /\ LET T == ranked_users(reviews, user_type(stats.user))
           row == {i \in 1..Len(T) : T[i].reviewee_id = stats.user}
       IN  \E out \in (IF row = {}
                        THEN get_user_ranking_results(stats.total, NULL, 0)
                        ELSE LET i == CHOOSE x \in row : TRUE
                             IN  get_user_ranking_results(stats.total, T[i].rank,
                                                          T[i].review_count)) :
                stats' = [stats EXCEPT !.done = TRUE, !.out = out]
    /\ UNCHANGED <<projects, bids, deliverables, reviews, inflight, now, selected>>

\* get_user_activity_score from the two counts to its result
get_user_activity_score_answer ==
    /\ stats.fn = "activity"
    /\ ~stats.done
    /\ stats' = [stats EXCEPT !.done = TRUE,
                              !.out = activity_score(stats.part, stats.total)]
    /\ UNCHANGED <<projects, bids, deliverables, reviews, inflight, now, selected>>

(* ============================== clock ================================= *)

Tick ==
    /\ now < MaxNow
    /\ now' = now + 1
    /\ UNCHANGED <<projects, bids, deliverables, inflight, selected, reviews, stats>>

(* Spec: the requests that write projects, bids, deliverables and reviews, *)
(* taken at one instant (the clock stands still).                          *)
Next ==
    \/ \E u \in Users, dl \in Deadlines : create_new_project(u, dl)
    \/ \E u \in Users, p \in ProjectIds : submit_bid_begin(u, p)
    \/ \E r \in BagToSet(inflight), pr \in Prices : submit_bid_commit(r, pr)
    \/ \E u \in Users, b \in BidIds, pr \in Prices : update_bid(u, b, pr)
    \/ \E u \in Users, p \in ProjectIds : select_bid_begin(u, p)
    \/ \E r \in BagToSet(inflight), b \in BidIds : select_bid_commit(r, b)
    \/ \E p \in ProjectIds : process_deliverable_begin(p)
    \/ \E r \in BagToSet(inflight), u \in Users : process_deliverable_commit(r, u)
    \/ \E u \in Users, p \in ProjectIds, d \in DeliverableIds : approve_deliverable(u, p, d)
    \/ \E u \in Users, p \in ProjectIds, d \in DeliverableIds : reject_deliverable_route(u, p, d)
    \/ \E u \in Users, p \in ProjectIds : submit_review_begin(u, p)
    \/ \E r \in BagToSet(inflight), s \in ScoreTriples : submit_review_commit(r, s)
    \/ \E u \in Users, p \in ProjectIds : submit_client_review_begin(u, p)
    \/ \E r \in BagToSet(inflight), s \in ScoreTriples : submit_client_review_commit(r, s)

Spec == Init /\ [][Next]_vars

(* SpecClock: the same requests with the clock running and project edits. *)
NextClock ==
    \/ Next
    \/ \E u \in Users, p \in ProjectIds, dl \in Deadlines : process_edit_project(u, p, dl)
    \/ Tick

SpecClock == Init /\ [][NextClock]_vars

(* SpecProject: projects from creation to the selection of a bid, with    *)
(* the clock running and project edits.                                    *)
NextProject ==
    \/ \E u \in Users, dl \in Deadlines : create_new_project(u, dl)
    \/ \E u \in Users, p \in ProjectIds, dl \in Deadlines : process_edit_project(u, p, dl)
    \/ \E u \in Users, p \in ProjectIds : submit_bid_begin(u, p)
    \/ \E r \in BagToSet(inflight), pr \in Prices : submit_bid_commit(r, pr)
    \/ \E u \in Users, p \in ProjectIds : select_bid_begin(u, p)
    \/ \E r \in BagToSet(inflight), b \in BidIds : select_bid_commit(r, b)
    \/ Tick

SpecProject == Init /\ [][NextProject]_vars

(* SpecReview: the review requests, with the clock running, on a database *)
(* whose project 1 was completed ReviewWindow days before day 1.          *)
InitReview ==
    /\ projects = <<[client_id |-> 1, status |-> "completed", accepted_bid_id |-> 1,
                     completed_at |-> 1 - ReviewWindow, deadline |-> 1 - ReviewWindow]>>
    /\ bids = <<[project_id |-> 1, contractor_id |-> 2, price |-> 100,
                 status |-> "accepted"]>>
    /\ deliverables = <<[project_id |-> 1, contractor_id |-> 2, status |-> "accepted",
                         reviewed_by |-> 1, reviewed_at |-> 1 - ReviewWindow]>>
    /\ reviews = << >>
    /\ inflight = EmptyBag
    /\ now = 1
    /\ selected = [p \in ProjectIds |-> IF p = 1 THEN 1 ELSE 0]
    /\ stats = NoStats

NextReview ==
    \/ \E u \in Users, p \in ProjectIds : submit_review_begin(u, p)
    \/ \E r \in BagToSet(inflight), s \in ScoreTriples : submit_review_commit(r, s)
    \/ \E u \in Users, p \in ProjectIds : submit_client_review_begin(u, p)
    \/ \E r \in BagToSet(inflight), s \in ScoreTriples : submit_client_review_commit(r, s)
    \/ Tick

SpecReview == InitReview /\ [][NextReview]_vars

(* SpecArchive: the requests that can still write, on a database whose    *)
(* project 1 was completed ReviewWindow + 1 days before day 1, its review  *)
(* window closed, its bidding deadline not yet reached.                    *)
InitArchive ==
    /\ projects = <<[client_id |-> 1, status |-> "completed", accepted_bid_id |-> 1,
                     completed_at |-> 0 - ReviewWindow, deadline |-> MaxNow]>>
    /\ bids = <<[project_id |-> 1, contractor_id |-> 2, price |-> 100,
                 status |-> "accepted"]>>
    /\ deliverables = <<[project_id |-> 1, contractor_id |-> 2, status |-> "accepted",
                         reviewed_by |-> 1, reviewed_at |-> 0 - ReviewWindow]>>
    /\ reviews = << >>
    /\ inflight = EmptyBag
    /\ now = 1
    /\ selected = [p \in ProjectIds |-> IF p = 1 THEN 1 ELSE 0]
    /\ stats = NoStats

NextArchive ==
    \/ \E u \in Users, dl \in Deadlines : create_new_project(u, dl)
    \/ \E u \in Users, p \in ProjectIds, dl \in Deadlines : process_edit_project(u, p, dl)
    \/ \E u \in Users, p \in ProjectIds : submit_bid_begin(u, p)
    \/ \E r \in BagToSet(inflight), pr \in Prices : submit_bid_commit(r, pr)
    \/ \E u \in Users, b \in BidIds, pr \in Prices : update_bid(u, b, pr)
    \/ \E u \in Users, p \in ProjectIds : select_bid_begin(u, p)
    \/ \E r \in BagToSet(inflight), b \in BidIds : select_bid_commit(r, b)
    \/ \E u \in Users, p \in ProjectIds, d \in DeliverableIds : approve_deliverable(u, p, d)
    \/ \E u \in Users, p \in ProjectIds, d \in DeliverableIds : reject_deliverable_route(u, p, d)
    \/ Tick

SpecArchive == InitArchive /\ [][NextArchive]_vars

(* SpecReputation: get_user_ranking, query by query, over any reviews     *)
(* table, built by calls of crud.create_review.                           *)
NextReputation ==
    \/ \E reviewee \in Accounts, s \in ScoreTriples : record_review(reviewee, s)
    \/ \E u \in Accounts : get_user_ranking_count(u)
    \/ get_user_ranking_answer

SpecReputation == Init /\ [][NextReputation]_vars

(* SpecNumeric: the arithmetic of get_user_activity_score on the counts   *)
(* its query can read.                                                     *)
InitNumeric ==
    /\ projects = << >>
    /\ bids = << >>
    /\ deliverables = << >>
    /\ reviews = << >>
    /\ inflight = EmptyBag
    /\ now = 1
    /\ selected = [p \in ProjectIds |-> 0]
    /\ \E total \in 0..MaxReceived :
            \E recent \in 0..total :
                stats = [fn |-> "activity", total |-> total, part |-> recent,
                         done |-> FALSE, out |-> NULL]

NextNumeric == get_user_activity_score_answer

SpecNumeric == InitNumeric /\ [][NextNumeric]_vars

(* ============================ properties ============================== *)

ProjectRows == 1..Len(projects)
BidRows == 1..Len(bids)
DeliverableRows == 1..Len(deliverables)
AcceptedBidsOf(p) == {b \in BidRows : bids[b].project_id = p /\ bids[b].status = "accepted"}

\* C1: for every project at most one of its bids is accepted, and an accepted
\* bid of the project is the project's accepted_bid.
C1_OneAcceptedBidMatchesProject ==
    \A p \in ProjectRows :
        /\ Cardinality(AcceptedBidsOf(p)) <= 1
        /\ \A b \in AcceptedBidsOf(p) : projects[p].accepted_bid_id = b

\* C2: accepted_bid is non-null exactly when the status is in_progress,
\* submitted, review or completed (null exactly when open).
C2_AcceptedBidIffNotOpen ==
    \A p \in ProjectRows :
        (projects[p].accepted_bid_id # NULL)
            <=> (projects[p].status \in {"in_progress", "submitted", "review", "completed"})

C2_Witness ==
    \E p, q \in ProjectRows :
        /\ projects[p].status = "completed" /\ projects[p].accepted_bid_id # NULL
        /\ projects[q].status = "open" /\ projects[q].accepted_bid_id = NULL

\* C3: of the select requests on one project at most one reports success,
\* also when their status checks and writes interleave.
C3_AtMostOneSelectSucceeds ==
    \A p \in ProjectIds : selected[p] <= 1

\* C4: there is at most one bid row per (project, contractor) pair, also when
\* two requests of one contractor pass the duplicate check before either insert.
C4_OneBidPerProjectAndContractor ==
    \A a, b \in BidRows :
        (bids[a].project_id = bids[b].project_id
            /\ bids[a].contractor_id = bids[b].contractor_id) => a = b

\* C5: no partially applied transition: after every step an accepted
\* deliverable belongs to a completed project, and a step that marks a
\* deliverable rejected moves its project from submitted to in_progress.
C5_NoPartialTransition ==
    [][/\ \A d \in 1..Len(deliverables') :
            deliverables'[d].status = "accepted"
                => projects'[deliverables'[d].project_id].status = "completed"
       /\ \A d \in DeliverableRows :
            (deliverables[d].status # "rejected" /\ deliverables'[d].status = "rejected")
                => /\ projects[deliverables[d].project_id].status = "submitted"
                   /\ projects'[deliverables[d].project_id].status = "in_progress"]_vars

\* C6: a completed project stays completed in every later state.
C6_CompletedIsTerminal ==
    [][\A p \in ProjectRows :
            projects[p].status = "completed" => projects'[p].status = "completed"]_vars

\* C7: every status change is open -> in_progress by a bid selection,
\* in_progress -> submitted by a deliverable submission, submitted -> completed
\* by an approval or submitted -> in_progress by a rejection, and a new project
\* starts open.
C7_OnlyTheFourTransitions ==
    [][/\ \A p \in ProjectRows :
            LET old == projects[p].status
                new == projects'[p].status
            IN  old # new =>
                  \/ /\ old = "open" /\ new = "in_progress"
                     /\ \E r \in BagToSet(inflight), b \in BidIds : select_bid_commit(r, b)
                  \/ /\ old = "in_progress" /\ new = "submitted"
                     /\ \E r \in BagToSet(inflight), u \in Users :
                            process_deliverable_commit(r, u)
                  \/ /\ old = "submitted" /\ new = "completed"
                     /\ \E u \in Users, d \in DeliverableIds : approve_deliverable(u, p, d)
                  \/ /\ old = "submitted" /\ new = "in_progress"
                     /\ \E u \in Users, d \in DeliverableIds : reject_deliverable_route(u, p, d)
       /\ \A p \in 1..Len(projects') :
            p \notin ProjectRows => projects'[p].status = "open"]_vars

\* C8: completed_at is non-null exactly when the status is completed.
C8_CompletedAtIffCompleted ==
    \A p \in ProjectRows :
        (projects[p].completed_at # NULL) <=> (projects[p].status = "completed")

\* C9: a successful selection of bid b of an open project makes the project
\* in_progress with accepted_bid = b, bid b accepted and every other bid of the
\* project rejected, whatever the prices.
C9_SelectWinningBidEffect ==
    [][\A r \in BagToSet(inflight), b \in BidIds :
            ( /\ select_bid_commit(r, b)
              /\ projects[r.pid].status = "open"
              /\ bids[b].project_id = r.pid )
            => /\ projects'[r.pid].status = "in_progress"
               /\ projects'[r.pid].accepted_bid_id = b
               /\ bids'[b].status = "accepted"
               /\ \A o \in 1..Len(bids') :
                    (o # b /\ bids'[o].project_id = r.pid) => bids'[o].status = "rejected"]_vars

\* two bids of one project at different prices, the dearer one selected
C9_Witness ==
    \E p \in ProjectRows, b, o \in BidRows :
        /\ projects[p].status = "in_progress" /\ projects[p].accepted_bid_id = b
        /\ selected[p] = 1
        /\ bids[b].project_id = p /\ bids[b].status = "accepted" /\ bids[b].price = 120
        /\ bids[o].project_id = p /\ bids[o].status = "rejected" /\ bids[o].price = 100

\* C10: once a selection has succeeded on a project, a later select request
\* of its client is answered with the state error (400) and writes nothing.
C10_SecondSelectFails ==
    \A p \in ProjectRows :
        selected[p] > 0 =>
            /\ select_bid_response(projects[p].client_id, p) = 400
            /\ \A u \in Users : ~ENABLED select_bid_begin(u, p)

C10_Witness ==
    \E p \in ProjectRows :
        /\ selected[p] = 1
        /\ Len(bids) = 2
        /\ select_bid_response(projects[p].client_id, p) = 400

\* C11: a bid request on a project that is not open (in_progress, submitted
\* or completed) never passes the checks of submit_bid, so no bid row is
\* inserted for it.
C11_NoBidOnNonOpenProject ==
    [][\A u \in Users, p \in ProjectIds :
            submit_bid_begin(u, p) => projects[p].status = "open"]_vars

\* C12: every pending bid belongs to an open project.
C12_PendingBidsOnOpenProjectsOnly ==
    \A b \in BidRows :
        bids[b].status = "pending" => projects[bids[b].project_id].status = "open"

\* C13: update_bid_price changes the price exactly when the bid exists, is
\* the caller's and is pending; otherwise it reports zero rows (answered 403)
\* and no bid changes.
C13_ReviseBidPrice ==
    [][\A u \in Users, b \in BidIds, pr \in Prices :
            LET ok == BidExists(b) /\ bids[b].contractor_id = u /\ bids[b].status = "pending"
            IN  /\ ok => /\ update_bid_response(u, b) = 302
                         /\ update_bid_price(bids, b, u, pr) = [bids EXCEPT ![b].price = pr]
                /\ ~ok => /\ update_bid_response(u, b) = 403
                          /\ update_bid_price(bids, b, u, pr) = bids
                /\ update_bid(u, b, pr) => /\ ok
                                           /\ bids' = [bids EXCEPT ![b].price = pr]]_vars

\* a pending bid at price 100 whose owner can revise it, next to an accepted
\* bid whose owner is refused
C13_Witness ==
    \E b, o \in BidRows :
        /\ bids[b].status = "pending" /\ bids[b].price = 100
        /\ ENABLED update_bid(bids[b].contractor_id, b, 120)
        /\ bids[o].status = "accepted"
        /\ update_bid_response(bids[o].contractor_id, o) = 403

\* C14: a contractor who has a bid on a project is answered with the
\* duplicate-bid error (400) when bidding on it again, and the request
\* inserts nothing.
C14_DuplicateBidFails ==
    \A u \in Users, p \in ProjectRows :
        bid_count(bids, p, u) > 0 =>
            /\ submit_bid_response(u, p) = 400
            /\ ~ENABLED submit_bid_begin(u, p)

\* a contractor with one bid on an open project, with room for another row
C14_Witness ==
    \E u \in Contractors, p \in ProjectRows :
        /\ bid_count(bids, p, u) = 1
        /\ projects[p].status = "open" /\ ~(projects[p].deadline < now)
        /\ inflight = EmptyBag /\ Len(bids) < MaxBids /\ Room(1, 0)
        /\ submit_bid_response(u, p) = 400

\* C15: a bid request on a project whose deadline is before today is
\* answered 400 and inserts nothing; on the deadline date itself the deadline
\* check lets the request through.
C15_BidAfterDeadlineFails ==
    \A u \in Contractors, p \in ProjectRows :
        /\ projects[p].deadline < now =>
                /\ submit_bid_response(u, p) = 400
                /\ ~ENABLED submit_bid_begin(u, p)
        /\ (projects[p].deadline = now /\ bid_count(bids, p, u) = 0) =>
                submit_bid_response(u, p) = 302

\* an open project one day past its deadline and a contractor without a bid
\* on it
C15_Witness ==
    \E u \in Contractors, p \in ProjectRows :
        /\ now = 2 /\ projects[p].deadline = 1 /\ projects[p].status = "open"
        /\ bid_count(bids, p, u) = 0
        /\ inflight = EmptyBag /\ Len(bids) < MaxBids /\ Room(1, 0)
        /\ submit_bid_response(u, p) = 400

\* C16: a deliverable is inserted only for the contractor of the project's
\* accepted bid.
C16_OnlyAcceptedContractorDelivers ==
    [][\A r \in BagToSet(inflight), u \in Users :
            process_deliverable_commit(r, u) => u = accepted_contractor_id(r.pid)]_vars

\* C17: an approval of a project that is not submitted leaves the
\* deliverable rows and the project rows unchanged.
C17_ApproveOutsideSubmittedChangesNothing ==
    [][\A u \in Users, p \in ProjectIds, d \in DeliverableIds :
            (approve_deliverable(u, p, d) /\ projects[p].status # "submitted")
                => UNCHANGED <<deliverables, projects>>]_vars

\* C18: a rejection by the owning client of a submitted project marks the
\* deliverable rejected and the project in_progress; in any other status it
\* leaves the deliverable rows and the project rows unchanged.
C18_RejectEffect ==
    [][\A u \in Users, p \in ProjectIds, d \in DeliverableIds :
            reject_deliverable_route(u, p, d) =>
                IF projects[p].status = "submitted"
                THEN /\ projects'[p].status = "in_progress"
                     /\ d \in DeliverableRows => deliverables'[d].status = "rejected"
                ELSE UNCHANGED <<deliverables, projects>>]_vars

\* C19: a deliverable submission on an in_progress project adds a submitted
\* deliverable and makes the project submitted; a rejection of a deliverable
\* of a submitted project makes the project in_progress and the deliverable
\* rejected; and an in_progress project accepts a deliverable submission
\* again, whatever was submitted and rejected before.
C19_SubmitRejectResubmit ==
    [][/\ \A r \in BagToSet(inflight), u \in Users :
            (process_deliverable_commit(r, u) /\ projects[r.pid].status = "in_progress")
                => /\ projects'[r.pid].status = "submitted"
                   /\ Len(deliverables') = Len(deliverables) + 1
                   /\ deliverables'[Len(deliverables')].status = "submitted"
                   /\ deliverables'[Len(deliverables')].project_id = r.pid
       /\ \A u \in Users, p \in ProjectIds, d \in DeliverableRows :
            ( /\ reject_deliverable_route(u, p, d)
              /\ projects[p].status = "submitted"
              /\ deliverables[d].project_id = p )
                => /\ projects'[p].status = "in_progress"
                   /\ deliverables'[d].status = "rejected"
                   /\ process_deliverable_response(p)' = 302
       /\ \A p \in ProjectRows :
            projects[p].status = "in_progress" => process_deliverable_response(p) = 302]_vars

\* a project submitted for the second time: its first deliverable rejected,
\* its second one awaiting review
C19_Witness ==
    \E p \in ProjectRows, d, e \in DeliverableRows :
        /\ d < e
        /\ deliverables[d].project_id = p /\ deliverables[d].status = "rejected"
        /\ deliverables[e].project_id = p /\ deliverables[e].status = "submitted"
        /\ projects[p].status = "submitted"

\* C20: the reviewer of every review is the project's client or the
\* contractor of its accepted bid, and the reviewee is the other of the two.
C20_ReviewBetweenTheTwoParties ==
    \A i \in 1..Len(reviews) :
        LET p == reviews[i].project_id
            c == projects[p].client_id
            k == accepted_contractor_id(p)
        IN  \/ reviews[i].reviewer_id = c /\ reviews[i].reviewee_id = k
            \/ reviews[i].reviewer_id = k /\ reviews[i].reviewee_id = c

\* C21: every project has at most two reviews, and at most one in each
\* direction.
C21_AtMostOneReviewPerDirection ==
    \A p \in ProjectRows :
        /\ Cardinality({i \in 1..Len(reviews) : reviews[i].project_id = p}) <= 2
        /\ \A d \in {"client_to_contractor", "contractor_to_client"} :
                Cardinality({i \in 1..Len(reviews) :
                    reviews[i].project_id = p /\ reviews[i].role_type = d}) <= 1

\* C22: there is at most one review for each pair of project and reviewer,
\* also when requests of the same reviewer overlap.
C22_OneReviewPerProjectAndReviewer ==
    \A i, j \in 1..Len(reviews) :
        ( /\ reviews[i].project_id = reviews[j].project_id
          /\ reviews[i].reviewer_id = reviews[j].reviewer_id ) => i = j

\* C23: on a completed project a review request is accepted while
\* now <= completed_at + 7 days and is answered 400, without a row being
\* written, at any later time; the same for both directions.
C23_ReviewWindow ==
    \A p \in ProjectRows :
        (projects[p].status = "completed" /\ projects[p].completed_at # NULL) =>
            LET c == projects[p].client_id
                inside == now <= projects[p].completed_at + ReviewWindow
            IN  /\ \A u \in Users :
                    /\ submit_review_response(u, p) = (IF inside THEN 303 ELSE 400)
                    /\ ~inside => ~ENABLED submit_review_begin(u, p)
                /\ accepted_contractor_id(p) # NULL =>
                        submit_client_review_response(c, p) = (IF inside THEN 303 ELSE 400)
                /\ ~inside => ~ENABLED submit_client_review_begin(c, p)

\* the day after the window of a completed project has closed, a review
\* written inside the window being there
C23_Witness ==
    \E p \in ProjectRows :
        /\ projects[p].status = "completed"
        /\ now = projects[p].completed_at + ReviewWindow + 1
        /\ submit_review_response(2, p) = 400
        /\ submit_client_review_response(1, p) = 400
        /\ \E i \in 1..Len(reviews) :
                reviews[i].project_id = p /\ reviews[i].created_at < now

\* C24: a review request on a project that is not completed fails, and so
\* every review row belongs to a completed project.
C24_ReviewsOnCompletedProjectsOnly ==
    /\ \A p \in ProjectRows, u \in Users :
            projects[p].status # "completed" =>
                /\ submit_review_response(u, p) = 400
                /\ submit_client_review_response(u, p) \in {400, 403}
    /\ \A i \in 1..Len(reviews) : projects[reviews[i].project_id].status = "completed"

\* C25: a review request of a reviewer who has already reviewed the project
\* is answered with an error, never with the answer of a success (the 303
\* redirect).
C25_DuplicateReviewIsAnError ==
    \A i \in 1..Len(reviews) :
        LET p == reviews[i].project_id
            u == reviews[i].reviewer_id
        IN  IF reviews[i].role_type = "contractor_to_client"
            THEN submit_review_response(u, p) # 303
            ELSE submit_client_review_response(u, p) # 303

\* the review_count of get_user_ranking for a user in its own role
ranking_review_counts(R, u) == {out.review_count : out \in get_user_ranking(R, u, user_type(u))}

\* C26: a review written on a completed project raises the review count of
\* its reviewee, in get_user_reputation_stats and in get_user_ranking, by
\* exactly 1 and changes the count of no other user; a review of a reviewer
\* who has already reviewed the project changes no count.
C26_ReviewCountedOnce ==
    [][\A r \in BagToSet(inflight), s \in ScoreTriples :
        (submit_review_commit(r, s) \/ submit_client_review_commit(r, s)) =>
            LET e == reviews'[Len(reviews')].reviewee_id
                w == reviews'[Len(reviews')].reviewer_id
                d(u) == IF u = e /\ ~check_if_reviewed(reviews, r.pid, w) THEN 1 ELSE 0
            IN  \A u \in Users :
                    /\ get_user_reputation_stats(reviews', u).total_count
                            = get_user_reputation_stats(reviews, u).total_count + d(u)
                    /\ ranking_review_counts(reviews', u)
                            = {n + d(u) : n \in ranking_review_counts(reviews, u)}]_vars

Roles == {"client", "contractor"}

\* C27: for a user with a received review, get_user_ranking returns
\* rank = 1 + the number of users of the role whose average score (the mean
\* over their received reviews of the mean of the three sub-scores) is
\* strictly greater, so that equal averages have equal ranks, and
\* total_users = the number of users of the role with a review.
C27_StandardRanking ==
    \A u \in Accounts :
        received(reviews, u) # {} =>
            LET peers == {v \in Accounts :
                            user_type(v) = user_type(u) /\ received(reviews, v) # {}}
            IN  \A out \in get_user_ranking(reviews, u, user_type(u)) :
                    /\ out.rank = 1 + Cardinality({v \in peers : mean_gt(reviews, v, u)})
                    /\ out.total_users = Cardinality(peers)

C28_PercentileRange ==
    [][(\/ get_user_ranking_answer
        \/ \E u \in Accounts : get_user_ranking_count(u) /\ stats'.done) =>
            LET u == stats'.user
                out == stats'.out
            IN  IF received(reviews, u) = {}
                THEN /\ out.rank = NULL
                     /\ out.percentile = 0
                     /\ ranked_reviewees(reviews, user_type(u)) = {} => out.total_users = 0
                ELSE /\ out.rank # NULL
                     /\ out.percentile \in percentile_outcomes(out.rank, out.total_users)
                     /\ 0 <= out.percentile /\ out.percentile < 1000
                     /\ ranked_reviewees(reviews, user_type(u)) = {u} => out.percentile = 0]_vars

\* C29 as stated: the activity score is an integer from 0 to 100, the ratio
\* of the reviews of the last 30 days to all received reviews times 100,
\* rounded; 0 for a user without reviews; and 100 exactly when every
\* received review is of the last 30 days.
C29_FullScoreOnlyIfAllRecent ==
    (stats.fn = "activity" /\ stats.done) =>
        /\ stats.out \in 0..100
        /\ stats.total = 0 => stats.out = 0
        /\ stats.total > 0 =>
                /\ 2 * (IF stats.out * stats.total >= 100 * stats.part
                        THEN stats.out * stats.total - 100 * stats.part
                        ELSE 100 * stats.part - stats.out * stats.total) <= stats.total
                /\ (stats.out = 100) <=> (stats.part = stats.total)

\* C29, amended: the activity score is an integer from 0 to 100, the ratio
\* of the reviews of the last 30 days to all received reviews times 100,
\* rounded; 0 for a user without reviews; and, for a user with reviews, 100
\* exactly when at least 99.5% of the received reviews are of the last 30
\* days.
C29_ActivityScore ==
    (stats.fn = "activity" /\ stats.done) =>
        /\ stats.out \in 0..100
        /\ stats.total = 0 => stats.out = 0
        /\ stats.total > 0 =>
                /\ 2 * (IF stats.out * stats.total >= 100 * stats.part
                        THEN stats.out * stats.total - 100 * stats.part
                        ELSE 100 * stats.part - stats.out * stats.total) <= stats.total
                /\ (stats.out = 100) <=> (1000 * stats.part >= 995 * stats.total)

\* a score of 100 with one received review older than 30 days
C29_Witness ==
    /\ stats.fn = "activity"
    /\ stats.done
    /\ stats.part < stats.total
    /\ stats.out = 100

\* C31: update_project changes the editable fields of a project exactly if
\* the project exists, is owned by the caller and is open; otherwise it
\* changes 0 rows, the caller is answered 403 and no project changes.  It
\* never changes status, accepted bid, completion time or owner.
C31_UpdateProject ==
    [][\A u \in Users, p \in ProjectIds, d \in Deadlines :
        LET ok == /\ ProjectExists(p)
                  /\ projects[p].client_id = u
                  /\ projects[p].status = "open"
        IN  /\ (update_project_rows(projects, p, u) # {}) <=> ok
            /\ ~ok => /\ update_project(projects, p, u, d) = projects
                      /\ d >= now => process_edit_project_response(u, p, d) = 403
            /\ process_edit_project(u, p, d) =>
                    /\ ok
                    /\ Len(projects') = Len(projects)
                    /\ projects'[p] = [projects[p] EXCEPT !.deadline = d]
                    /\ \A q \in ProjectRows : q # p => projects'[q] = projects[q]]_vars

\* an open project whose deadline the owner can move, next to a project in
\* progress whose edit is answered 403
C31_Witness ==
    \E p, q \in ProjectRows :
        /\ projects[p].status = "open"
        /\ \E d \in Deadlines :
                d # projects[p].deadline /\ ENABLED process_edit_project(projects[p].client_id, p, d)
        /\ projects[q].status = "in_progress"
        /\ process_edit_project_response(projects[q].client_id, q, MaxNow) = 403

\* C32: create_new_project with a deadline before today is answered 400
\* and inserts nothing; with a deadline of today or later it inserts
\* exactly one project: open, no accepted bid, no completion time, owned by
\* the caller.
C32_CreateProject ==
    [][/\ \A u \in Clients, d \in Deadlines :
            /\ d < now => /\ create_new_project_response(u, d) = 400
                          /\ ~ENABLED create_new_project(u, d)
            /\ d >= now => create_new_project_response(u, d) = 302
       /\ \A u \in Users, d \in Deadlines :
            create_new_project(u, d) =>
                /\ d >= now
                /\ Len(projects') = Len(projects) + 1
                /\ projects'[Len(projects')] =
                        [client_id |-> u, status |-> "open", accepted_bid_id |-> NULL,
                         completed_at |-> NULL, deadline |-> d]
                /\ \A q \in ProjectRows : projects'[q] = projects[q]]_vars

\* a project created on the day its deadline allows, while a creation with
\* yesterday's date is answered 400
C32_Witness ==
    /\ now = 2
    /\ create_new_project_response(1, 1) = 400
    /\ \E p \in ProjectRows :
            /\ projects[p].status = "open"
            /\ projects[p].deadline = 2
            /\ projects[p].accepted_bid_id = NULL

\* C35: the passing of time changes no project; an open project leaves
\* status open only by the selection of a bid, which stays permitted after
\* the deadline; after the deadline a new bid is answered 400, and every
\* other request is answered as the status and the ownership alone decide.
C35_DeadlineIsAdvisory ==
    [][/\ Tick => projects' = projects
       /\ \A p \in ProjectRows :
            (projects[p].status = "open" /\ projects'[p].status # "open") =>
                \E r \in BagToSet(inflight), b \in BidIds :
                    r.pid = p /\ select_bid_commit(r, b)
       /\ \A p \in ProjectRows :
            projects[p].deadline < now =>
                LET c == projects[p].client_id
                    st == projects[p].status
                IN  /\ \A u \in Contractors : submit_bid_response(u, p) = 400
                    /\ select_bid_response(c, p) = (IF st = "open" THEN 302 ELSE 400)
                    /\ process_edit_project_response(c, p, now)
                            = (IF st = "open" THEN 302 ELSE 403)
                    /\ process_deliverable_response(p)
                            = (IF st = "in_progress" THEN 302 ELSE 400)
                    /\ approve_deliverable_response(c, p) = 302
                    /\ reject_deliverable_route_response(c, p) = 302
                    /\ \A b \in 1..Len(bids) :
                            (bids[b].project_id = p /\ bids[b].status = "pending") =>
                                update_bid_response(bids[b].contractor_id, b) = 302]_vars

\* an open project past its deadline, with a bid, whose selection request
\* has passed its checks and can write
C35_Witness ==
    \E p \in ProjectRows, b \in 1..Len(bids) :
        /\ projects[p].status = "open"
        /\ projects[p].deadline < now
        /\ bids[b].project_id = p
        /\ BagIn(Req("select", NULL, p), inflight)
        /\ ENABLED select_bid_commit(Req("select", NULL, p), b)
        /\ ENABLED select_bid_begin(projects[p].client_id, p)

\* C33: when the guarded UPDATE of create_deliverable changes no row (the
\* project is not in_progress any more), the request leaves no deliverable
\* row behind.
C33_ZeroRowsLeavesNoDeliverable ==
    [][\A r \in BagToSet(inflight), u \in Users :
        (process_deliverable_commit(r, u) /\ projects[r.pid].status # "in_progress")
            => deliverables' = deliverables]_vars

\* C36: select_bid_for_project changes no bid of another project and makes
\* no bid of another project the accepted bid; called with such a bid it
\* changes nothing.
C36_SelectStaysInsideTheProject ==
    [][\A r \in BagToSet(inflight), b \in BidIds :
        select_bid_commit(r, b) =>
            /\ \A x \in BidRows : bids[x].project_id # r.pid => bids'[x] = bids[x]
            /\ bids[projects'[r.pid].accepted_bid_id].project_id = r.pid
            /\ bids[b].project_id # r.pid => UNCHANGED <<projects, bids>>]_vars

\* C37: approving or rejecting with project id p changes no deliverable of
\* another project.
C37_ReviewStaysInsideTheProject ==
    [][\A u \in Users, p \in ProjectIds, d \in DeliverableIds :
        (approve_deliverable(u, p, d) \/ reject_deliverable_route(u, p, d)) =>
            \A x \in DeliverableRows :
                deliverables[x].project_id # p => deliverables'[x] = deliverables[x]]_vars

\* C38: an accepted or rejected deliverable never changes again, and a
\* completed project has exactly one accepted deliverable and no submitted
\* one.
C38_DeliverableReviewedOnce ==
    [][/\ \A d \in DeliverableRows :
            deliverables[d].status # "submitted" => deliverables'[d] = deliverables[d]
       /\ \A p \in ProjectRows :
            projects[p].status = "completed" =>
                /\ Cardinality({d \in DeliverableRows :
                        /\ deliverables[d].project_id = p
                        /\ deliverables[d].status = "accepted"}) = 1
                /\ \A d \in DeliverableRows :
                        deliverables[d].project_id = p => deliverables[d].status # "submitted"]_vars

\* C39: the reviewer of a review is never its reviewee.
C39_NoSelfReview ==
    \A i \in 1..Len(reviews) : reviews[i].reviewer_id # reviews[i].reviewee_id

\* C34: once a project is completed and its review window has closed, no
\* step changes its row, changes or adds a bid or a deliverable of it, or
\* adds a review for it.
C34_ArchivedProjectIsReadOnly ==
    [][\A p \in ProjectRows :
        ( /\ projects[p].status = "completed"
          /\ projects[p].completed_at # NULL
          /\ now > projects[p].completed_at + ReviewWindow ) =>
            /\ projects'[p] = projects[p]
            /\ \A b \in 1..Len(bids') :
                    IF b <= Len(bids)
                    THEN bids[b].project_id = p => bids'[b] = bids[b]
                    ELSE bids'[b].project_id # p
            /\ \A d \in 1..Len(deliverables') :
                    IF d <= Len(deliverables)
                    THEN deliverables[d].project_id = p => deliverables'[d] = deliverables[d]
                    ELSE deliverables'[d].project_id # p
            /\ \A i \in 1..Len(reviews') :
                    i > Len(reviews) => reviews'[i].project_id # p]_vars

\* C40: no project ever has status review: every status is open,
\* in_progress, submitted or completed; a deliverable request passes its
\* status check on an in_progress project only, and a rejection of a
\* submitted project leaves it in_progress.
C40_StatusReviewNeverReached ==
    [][/\ \A p \in ProjectRows :
            projects[p].status \in {"open", "in_progress", "submitted", "completed"}
       /\ \A p \in ProjectIds :
            process_deliverable_begin(p) => projects[p].status = "in_progress"
       /\ \A u \in Users, p \in ProjectRows, d \in DeliverableIds :
            (reject_deliverable_route(u, p, d) /\ projects[p].status = "submitted")
                => projects'[p].status = "in_progress"]_vars

\* a project back in_progress after the rejection of its deliverable, open
\* to a new deliverable request
C40_Witness ==
    \E p \in ProjectRows, d \in DeliverableRows :
        /\ projects[p].status = "in_progress"
        /\ deliverables[d].project_id = p
        /\ deliverables[d].status = "rejected"
        /\ ENABLED process_deliverable_begin(p)
====
